---- MODULE Spec2Model ----
(***************************************************************************)
(* A model of jvsfunc's cadence-aware frame reconstruction:                *)
(*   jvsfunc/deblend.py      jdeblend, _jdeblend_eval, jdeblend_kf,        *)
(*                           JIVTC_Deblend                                 *)
(*   jvsfunc/deinterlace.py  decimate                                      *)
(*                                                                         *)
(* A clip is a finite sequence of frames; a frame is a record [kind, idx]  *)
(* that names where its picture comes from: "fm" the field-matched clip,   *)
(* "src" the untouched source, "dbd" the deblend computed at idx, "in" the *)
(* clip given to jdeblend_kf.  Python frame numbers start at 0, TLA+       *)
(* sequences at 1: frame n of clip c is c[n+1].                            *)
(***************************************************************************)
EXTENDS Integers, Sequences, FiniteSets, TLC

VARIABLES num_frames,   \* number of frames of the input clips
          combed,       \* combed[i]: the _Combed prop of frame i of src_fm
          scenechange,  \* scenechange[i]: the VFMSceneChange prop of frame i
          out,          \* what the last call or frame request produced
          served,       \* the replies a derived clip has given so far
          args          \* the arguments of the call of a pure function

vars == <<num_frames, combed, scenechange, out, served, args>>

\* ------------------------------------------------------------------ bounds
\* src[2:] of jdeblend needs a third frame
MinFrames == 3
\* longest clip of the selector's specification
MaxFrames == 6
\* longest clip of the scene boundary corrector's specification
MaxFramesKf == 4

\* longest clip of the cadence specification
MaxFramesCad == 20
\* patterns run over -MaxPattern..MaxPattern
MaxPattern == 7
\* the largest sample value of the kernel's specification
SamplePeak == 7
\* the height of the pictures comb_mask is given: the middle row has two
\* rows above it and two below it, so the five taps of ex_m0 are five rows
MaskHeight == 5
\* the length of the clips find_prop scans
MaxScan == 6
\* min_length runs over 0..MaxMinLength
MaxMinLength == 2
\* the longest list of clips select_lesscombed is given
MaxClips == 5
\* longest clip of the specification of jdeblend's clip in use
MaxFramesStream == 5
\* the number of different replies a clip gives in that specification
MaxServed == 2

CombedFlags == {0, 1}
SceneFlags == {0, 1, 2}

Min(a, b) == IF a < b THEN a ELSE b
Max(a, b) == IF a > b THEN a ELSE b

\* ------------------------------------------------- clips (the frame server)
Frame(k, i) == [kind |-> k, idx |-> i]
NoFrame == Frame("none", -1)

\* the frames of a clip given frame by frame, as a tuple
Frames(f) == <<>> \o f

\* a clip of n frames of one kind, frame i being Frame(k, i)
Clip(k, n) == Frames([i \in 1..n |-> Frame(k, i - 1)])

\* the result of an expression that yields a clip or raises; asked lists the
\* frame numbers it indexed clips with
Ok(c) == [ok |-> TRUE, clip |-> c, asked |-> <<>>]
Raised(asked) == [ok |-> FALSE, clip |-> <<>>, asked |-> asked]

\* a frame request: the frame server clamps n to the clip's last frame
GetFrame(c, n) == c[Min(n, Len(c) - 1) + 1]

\* clip[i] for an integer i: a negative i counts from the end, and Trim
\* raises when the frame does not exist
Index(r, i) ==
    IF ~r.ok THEN r
    ELSE LET n == IF i < 0 THEN Len(r.clip) + i ELSE i
             asked == Append(r.asked, i)
         IN IF n < 0 \/ n >= Len(r.clip) THEN Raised(asked)
            ELSE [ok |-> TRUE, clip |-> <<r.clip[n + 1]>>, asked |-> asked]

\* Python's normalisation of a slice bound against a length
SliceBound(k, len) == IF k < 0 THEN Max(k + len, 0) ELSE Min(k, len)
\* clip[k:]
SliceFrom(c, k) == SubSeq(c, SliceBound(k, Len(c)) + 1, Len(c))
\* clip[:k]
SliceTo(c, k) == SubSeq(c, 1, SliceBound(k, Len(c)))

\* std.SelectEvery(cycle, offsets)
SelectEveryLen(len, cycle, offsets) ==
    (len \div cycle) * Len(offsets)
      + Cardinality({j \in 1..Len(offsets) : offsets[j] < len % cycle})
SelectEvery(c, cycle, offsets) ==
    Frames([m \in 1..SelectEveryLen(Len(c), cycle, offsets) |->
        GetFrame(c, ((m - 1) \div Len(offsets)) * cycle
                      + offsets[((m - 1) % Len(offsets)) + 1])])

\* std.SelectEvery raises when no offset is inside the clip: "no frames to
\* output, all offsets outside available frames"
SelectEveryBuilds(len, cycle, offsets) ==
    SelectEveryLen(len, cycle, offsets) > 0

\* std.Interleave(clips)
InterleaveLen(clips) ==
    LET ends == {(Len(clips[i]) - 1) * Len(clips) + i :
                    i \in {j \in 1..Len(clips) : Len(clips[j]) > 0}}
    IN IF ends = {} THEN 0 ELSE CHOOSE e \in ends : \A f \in ends : f <= e
Interleave(clips) ==
    Frames([m \in 1..InterleaveLen(clips) |->
        GetFrame(clips[((m - 1) % Len(clips)) + 1], (m - 1) \div Len(clips))])

\* ----------------------------------------------------------------- jdeblend
\* a, ab, bc, c = src[0] + src[:-1], src, src[1:] + src[-1], src[2:] + src[-2:]
DeblendA(src) == Index(Ok(src), 0).clip \o SliceTo(src, -1)
DeblendAB(src) == src
DeblendBC(src) == SliceFrom(src, 1) \o Index(Ok(src), -1).clip
DeblendC(src) == SliceFrom(src, 2) \o SliceFrom(src, -2)

\* clip[i:j] is a std.Trim, which raises when the slice has no frame: the
\* four slices of that line can be built
DeblendBuilds(src) ==
    /\ SliceTo(src, -1) # <<>>
    /\ SliceFrom(src, 1) # <<>>
    /\ SliceFrom(src, 2) # <<>>
    /\ SliceFrom(src, -2) # <<>>

\* the four frames std.Expr reads to make frame n of dbd
DeblendWindow(src, n) ==
    [a  |-> GetFrame(DeblendA(src), n).idx,
     ab |-> GetFrame(DeblendAB(src), n).idx,
     bc |-> GetFrame(DeblendBC(src), n).idx,
     c  |-> GetFrame(DeblendC(src), n).idx]

\* dbd = core.std.Expr([a, ab, bc, c], ...): as long as its first clip
Dbd(src) == Clip("dbd", Len(DeblendA(src)))

\* the deblended clip put at the next slot of every stream
inter_pattern_next(clipa, clipb) ==
    << Interleave(<<clipa[1], clipb[2], clipa[3], clipa[4], clipa[5]>>),
       Interleave(<<clipa[1], clipa[2], clipb[3], clipa[4], clipa[5]>>),
       Interleave(<<clipa[1], clipa[2], clipa[3], clipb[4], clipa[5]>>),
       Interleave(<<clipa[1], clipa[2], clipa[3], clipa[4], clipb[5]>>),
       Interleave(<<clipb[1], clipa[2], clipa[3], clipa[4], clipa[5]>> ) >>

\* _inter_pattern
inter_pattern(clipa, clipb) ==
    << Interleave(<<clipb[1], clipa[2], clipa[3], clipa[4], clipa[5]>>),
       Interleave(<<clipa[1], clipb[2], clipa[3], clipa[4], clipa[5]>>),
       Interleave(<<clipa[1], clipa[2], clipb[3], clipa[4], clipa[5]>>),
       Interleave(<<clipa[1], clipa[2], clipa[3], clipb[4], clipa[5]>>),
       Interleave(<<clipa[1], clipa[2], clipa[3], clipa[4], clipb[5]>> ) >>

\* inters of jdeblend
Inters(src) ==
    LET select_src == [i \in 1..5 |-> SelectEvery(src, 5, <<i - 1>>)]
        select_dbd == [i \in 1..5 |-> SelectEvery(Dbd(src), 5, <<i - 1>>)]
    IN inter_pattern(select_src, select_dbd)

\* select_src and select_dbd of jdeblend are built: none of the ten
\* SelectEvery calls raises (a clip of fewer than five frames has no frame
\* at the later offsets)
jdeblend_builds(num) ==
    \A i \in 1..5 : SelectEveryBuilds(num, 5, <<i - 1>>)

\* psrc with the next frame beside the current one, not the previous
Psrc_next(src_fm) ==
    <<src_fm, SliceFrom(src_fm, 1) \o Index(Ok(src_fm), -1).clip>>

\* psrc with the last frame, not the first, put in front
Psrc_wrap(src_fm) ==
    <<src_fm, Index(Ok(src_fm), -1).clip \o SliceTo(src_fm, -1)>>

\* psrc = [src_fm, src_fm[0]+src_fm[:-1]]
Psrc(src_fm) == <<src_fm, Index(Ok(src_fm), 0).clip \o SliceTo(src_fm, -1)>>

\* f[i].props[...] for i in [0, 1]: the prop of frame n of each clip of psrc
Props(prop, psrc, n) == [i \in 1..2 |-> prop[GetFrame(psrc[i], n).idx]]

\* the phase of frame n
Phase(n) == n % 5

\* the stream choice with the phase off by one
eval_stream_off(n, comb, src, inters) ==
    IF comb[1] = 1 THEN inters[Phase(n + 1) + 1] ELSE src

\* lines 27-29 of _jdeblend_eval: the stream the frame is taken from
eval_stream(n, comb, src, inters) ==
    LET pattern == Phase(n)
    IN IF comb[1] = 1 THEN inters[pattern + 1] ELSE src

\* the callback without the re-index: frame n of the stream in either case
jdeblend_eval_stay(n, comb, src, inters) ==
    LET src1 == eval_stream(n, comb, src, inters)
    IN IF comb[1] + comb[2] = 2 THEN Index(Ok(src1), n) ELSE Ok(src1)

\* _jdeblend_eval
jdeblend_eval(n, comb, src, inters) ==
    LET src1 == eval_stream(n, comb, src, inters)
    IN IF comb[1] + comb[2] = 2 THEN Index(Ok(src1), n + 1) ELSE Ok(src1)

\* std.FrameEval: the frame n of the clip the callback returns
FrameEval(r, n) == IF r.ok THEN GetFrame(r.clip, n) ELSE NoFrame

\* the frame number of the input stream a request for frame n resolves to
Resolved(r, n) == IF r.asked = <<>> THEN n ELSE r.asked[1]

\* ------------------------------------------------------------- jdeblend_kf
\* keyframe with kf_end taken as sum(keyfm) == 1
keyframe_sum(n, keyfm, cmb, src) ==
    LET kf_end == keyfm[1] + keyfm[2] = 1
        kf_start == keyfm[1] + keyfm[2] = 2
        is_cmb == cmb = 1
        src1 == IF kf_end /\ is_cmb THEN Index(Ok(src), n - 1) ELSE Ok(src)
    IN IF kf_start /\ is_cmb THEN Index(src1, n + 1) ELSE src1

\* keyframe of jdeblend_kf
keyframe(n, keyfm, cmb, src) ==
    LET kf_end == keyfm[1] > keyfm[2]
        kf_start == keyfm[1] + keyfm[2] = 2
        is_cmb == cmb = 1
        src1 == IF kf_end /\ is_cmb THEN Index(Ok(src), n - 1) ELSE Ok(src)
    IN IF kf_start /\ is_cmb THEN Index(src1, n + 1) ELSE src1

\* ------------------------------------------------------ the deblend kernel
\* the formula with c not halved: "z a - y x 2 / - +"
DeblendExpr2_nohalf(x, y, z, a) == (2 * z - 2 * a) + (2 * y - x)

\* "z a 2 / - y x 2 / - +" with x, y, z, a the samples of the clips a, ab, bc,
\* c: twice its value, which is a whole number
DeblendExpr2(x, y, z, a) == (2 * z - a) + (2 * y - x)

\* std.Expr stores an integer sample: the value rounded to the nearest
\* integer (a half goes up or down, as the build rounds) and clamped to the
\* sample range
StoreSample(v2, up, peak) ==
    LET r == IF v2 % 2 = 0 THEN v2 \div 2
             ELSE IF up THEN (v2 + 1) \div 2 ELSE (v2 - 1) \div 2
    IN Max(0, Min(r, peak))

\* the two integer samples nearest to half of v2
Halves(v2) == {v2 \div 2, (v2 + 1) \div 2}

\* -------------------------------------------------- JIVTC_Deblend, decimate
\* cycle10 with the second slot of pattern 0 one frame late
cycle10_late == << <<0, 4, 6, 8>>, <<0, 2, 5, 8>>, <<0, 2, 4, 7>>,
                   <<2, 4, 6, 9>>, <<1, 4, 6, 8>> >>
cycle10 == << <<0, 3, 6, 8>>, <<0, 2, 5, 8>>, <<0, 2, 4, 7>>,
              <<2, 4, 6, 9>>, <<1, 4, 6, 8>> >>
\* cycle08 with two slots of pattern 0 taken from the deblended clip
cycle08_two == << <<1, 3, 4, 6>>, <<0, 2, 5, 6>>, <<0, 2, 4, 7>>,
                  <<0, 2, 4, 7>>, <<1, 2, 4, 6>> >>
\* cycle08 with a slot of pattern 1 repeated
cycle08_dup == << <<0, 3, 4, 6>>, <<0, 2, 5, 5>>, <<0, 2, 4, 7>>,
                  <<0, 2, 4, 7>>, <<1, 2, 4, 6>> >>
cycle08 == << <<0, 3, 4, 6>>, <<0, 2, 5, 6>>, <<0, 2, 4, 7>>,
              <<0, 2, 4, 7>>, <<1, 2, 4, 6>> >>
\* cycle05 with the rows of patterns 0 and 1 exchanged
cycle05_swapped == << <<0, 1, 2, 4>>, <<0, 1, 3, 4>>, <<0, 1, 2, 3>>,
                      <<1, 2, 3, 4>>, <<0, 2, 3, 4>> >>
cycle05 == << <<0, 1, 3, 4>>, <<0, 1, 2, 4>>, <<0, 1, 2, 3>>,
              <<1, 2, 3, 4>>, <<0, 2, 3, 4>> >>
\* selectlist with the rows of patterns 2 and 3 exchanged
selectlist_swapped == << <<1, 2, 3, 4>>, <<0, 2, 3, 4>>, <<0, 1, 2, 4>>,
                         <<0, 1, 3, 4>>, <<0, 1, 2, 3>> >>
selectlist == << <<1, 2, 3, 4>>, <<0, 2, 3, 4>>, <<0, 1, 3, 4>>,
                 <<0, 1, 2, 4>>, <<0, 1, 2, 3>> >>

\* the pattern clamped into 0..4 instead of reduced
PatternClamp(pattern) == Max(0, Min(pattern, 4))

\* pattern % 5 in Python: the sign of the divisor, so 0..4
PatternMod(pattern) == pattern % 5

\* list[i] in Python: a negative i counts from the end, IndexError outside
ListIndex(list, i) ==
    LET k == IF i < 0 THEN Len(list) + i ELSE i
    IN IF k < 0 \/ k >= Len(list) THEN [ok |-> FALSE, row |-> <<>>]
       ELSE [ok |-> TRUE, row |-> list[k + 1]]

\* a weave that pairs the fields of each frame only
Weaved_single(src) == Clip("weave", Len(src))

\* src.std.SeparateFields(tff).std.DoubleWeave(): frame i weaves the fields i
\* and i+1 of the 2N fields of src
Weaved(src) == Clip("weave", 2 * Len(src))

\* a frame of the output: where its luma and its chroma come from
Planes(y, uv) == [luma |-> y, chroma |-> uv]

\* the planes of the two clips exchanged
ShufflePlanes_swapped(y, uv) ==
    Frames([m \in 1..Len(y) |->
        Planes(GetFrame(uv, m - 1), GetFrame(y, m - 1))])

\* core.std.ShufflePlanes([y, uv], [0, 1, 2], vs.YUV)
ShufflePlanes(y, uv) ==
    Frames([m \in 1..Len(y) |->
        Planes(GetFrame(y, m - 1), GetFrame(uv, m - 1))])

\* lines 127-144 of JIVTC_Deblend
JIVTC_Deblend(src, pattern0, chroma_only) ==
    LET pattern == PatternMod(pattern0)
        r10 == ListIndex(cycle10, pattern)
        r05 == ListIndex(cycle05, pattern)
        r08 == ListIndex(cycle08, pattern)
        ivtced == SelectEvery(Weaved(src), 10, r10.row)
        deblended == SelectEvery(Dbd(src), 5, r05.row)
        inter == Interleave(<<ivtced, deblended>>)
        final == SelectEvery(inter, 8, r08.row)
        final_y == ShufflePlanes(ivtced, final)
        error == IF ~(r10.ok /\ r05.ok /\ r08.ok) THEN "IndexError"
                 ELSE IF ~SelectEveryBuilds(Len(Weaved(src)), 10, r10.row)
                 THEN "Error: SelectEvery"
                 ELSE IF ~DeblendBuilds(src) THEN "Error: Trim"
                 ELSE IF \/ ~SelectEveryBuilds(Len(Dbd(src)), 5, r05.row)
                         \/ ~SelectEveryBuilds(Len(inter), 8, r08.row)
                 THEN "Error: SelectEvery"
                 ELSE "none"
        \* the clips bound when the call raises: ivtced is bound to the
        \* weaved clip before the first SelectEvery, deblended before the
        \* second, inter before the third
        bound == IF ~r10.ok THEN <<>>
                 ELSE IF \/ ~SelectEveryBuilds(Len(Weaved(src)), 10, r10.row)
                         \/ ~DeblendBuilds(src)
                 THEN <<"ivtced">>
                 ELSE IF ~SelectEveryBuilds(Len(Dbd(src)), 5, r05.row)
                 THEN <<"ivtced", "deblended">>
                 ELSE <<"ivtced", "deblended", "inter">>
    IN IF error # "none"
       THEN [ok |-> FALSE, error |-> error, index |-> pattern,
             built |-> bound,
             rows |-> IF r10.ok THEN <<r10.row>> ELSE <<>>, clip |-> <<>>,
             ivtced |-> <<>>, deblended |-> <<>>, final |-> <<>>]
       ELSE [ok |-> TRUE, error |-> "none", index |-> pattern,
             built |-> <<"ivtced", "deblended", "inter", "final">>,
             rows |-> <<r10.row, r08.row, r05.row>>,
             clip |-> IF chroma_only THEN final_y
                      ELSE ShufflePlanes(final, final),
             ivtced |-> ivtced, deblended |-> deblended, final |-> final]

\* decimate: SelectEvery raises when no offset of the row lies inside the clip
decimate(src, pattern) ==
    LET r == ListIndex(selectlist, PatternMod(pattern))
    IN IF ~r.ok
       THEN [ok |-> FALSE, error |-> "IndexError",
             index |-> PatternMod(pattern), rows |-> <<>>, clip |-> <<>>]
       ELSE IF ~SelectEveryBuilds(Len(src), 5, r.row)
       THEN [ok |-> FALSE, error |-> "Error: SelectEvery",
             index |-> PatternMod(pattern), rows |-> <<r.row>>, clip |-> <<>>]
       ELSE [ok |-> TRUE, error |-> "none", index |-> PatternMod(pattern),
             rows |-> <<r.row>>, clip |-> SelectEvery(src, 5, r.row)]

\* ------------------------------------------ the clip jdeblend returns, in use
\* the _Combed prop of a frame that has none
Absent == -1
StreamFlags == CombedFlags \cup {Absent}

\* a reply to a request for frame n
Failed(n, error) ==
    [n |-> n, ok |-> FALSE, error |-> error, stream |-> <<>>, index |-> n,
     frame |-> NoFrame]

\* a src that stays rebound to the stream an earlier call chose
BoundSrc_leak(src_fm, hist) ==
    IF \E r \in hist : r.ok THEN (CHOOSE r \in hist : r.ok).stream
    ELSE src_fm

\* partial(_jdeblend_eval, src=src_fm, inters=inters): the src a call starts
\* with, after the calls that gave the replies hist
BoundSrc(src_fm, hist) == src_fm

\* FrameEval calls _jdeblend_eval for frame n of a clip of num frames whose
\* _Combed props are prop; a missing prop raises KeyError at line 26
jdeblend_frame(n, prop, num, hist) ==
    LET src_fm == Clip("fm", num)
        src == BoundSrc(src_fm, hist)
        inters == Inters(Clip("src", num))
        comb == Props(prop, Psrc(src_fm), n)
        r == jdeblend_eval(n, comb, src, inters)
    IN IF \E i \in 1..2 : comb[i] = Absent THEN Failed(n, "KeyError")
       ELSE [n |-> n, ok |-> r.ok,
             error |-> IF r.ok THEN "none" ELSE "IndexError",
             stream |-> eval_stream(n, comb, src, inters),
             index |-> Resolved(r, n),
             frame |-> FrameEval(r, n)]

\* ------------------------------------------------------------------ comb_mask
\* the width of the pictures comb_mask is given
MaskWidth == 2
\* get_peak_value(src) of an 8-bit clip
MaskPeak == 255
\* the largest cthresh of metric 0 and the largest mthresh, and of metric 1
ThreshMax == 255
ThreshMaxM1 == 65025

\* one plane of a frame: a sample for every <<x, y>>
Pixels == (0..(MaskWidth - 1)) \X (0..(MaskHeight - 1))
Abs(v) == IF v < 0 THEN 0 - v ELSE v

\* x[relx,rely] of akarin.Expr: the pixel at that offset, clamped at the borders
Rel(pic, q, relx, rely) ==
    pic[<<Min(Max(q[1] + relx, 0), MaskWidth - 1),
          Min(Max(q[2] + rely, 0), MaskHeight - 1)>>]

\* cth_max for every metric the one of metric 0
cth_max_m0(metric) == ThreshMax

\* cth_max = 65025 if metric else 255
cth_max(metric) == IF metric # 0 THEN ThreshMaxM1 ELSE ThreshMax

\* the two range checks of comb_mask: what they raise
comb_mask_check(cthresh, mthresh, metric) ==
    IF cthresh > cth_max(metric) \/ cthresh < 0 THEN "ValueError: cthresh"
    ELSE IF mthresh > ThreshMax \/ mthresh < 0 THEN "ValueError: mthresh"
    ELSE "none"

\* ex_m0 with the taps a and e read one row away, where b and d are
ex_m0_near(pic, cthresh, peak) ==
    [q \in Pixels |->
        LET a == Rel(pic, q, 0, -1)
            b == Rel(pic, q, 0, -1)
            c == pic[q]
            d == Rel(pic, q, 0, 1)
            e == Rel(pic, q, 0, 1)
            d1 == c - b
            d2 == c - d
            fd == Abs((c * 4 + a + e) - ((b + d) * 3))
        IN IF /\ \/ d1 > cthresh /\ d2 > cthresh
                 \/ d1 < 0 - cthresh /\ d2 < 0 - cthresh
              /\ fd > cthresh * 6
           THEN peak ELSE 0]

\* ex_m0 on one picture
ex_m0(pic, cthresh, peak) ==
    [q \in Pixels |->
        LET a == Rel(pic, q, 0, -2)
            b == Rel(pic, q, 0, -1)
            c == pic[q]
            d == Rel(pic, q, 0, 1)
            e == Rel(pic, q, 0, 2)
            d1 == c - b
            d2 == c - d
            fd == Abs((c * 4 + a + e) - ((b + d) * 3))
        IN IF /\ \/ d1 > cthresh /\ d2 > cthresh
                 \/ d1 < 0 - cthresh /\ d2 < 0 - cthresh
              /\ fd > cthresh * 6
           THEN peak ELSE 0]

\* ex_m1 with >= for >
ex_m1_ge(pic, cthresh, peak) ==
    [q \in Pixels |->
        IF (Rel(pic, q, 0, -1) - pic[q]) * (Rel(pic, q, 0, 1) - pic[q])
               >= cthresh
        THEN peak ELSE 0]

\* ex_m1 on one picture
ex_m1(pic, cthresh, peak) ==
    [q \in Pixels |->
        IF (Rel(pic, q, 0, -1) - pic[q]) * (Rel(pic, q, 0, 1) - pic[q])
               > cthresh
        THEN peak ELSE 0]

\* ex_motion on the pictures x and y
ex_motion(x, y, mthresh, peak) ==
    [q \in Pixels |-> IF Abs(x[q] - y[q]) > mthresh THEN peak ELSE 0]

\* the largest of a set of samples
SetMax(S) == CHOOSE v \in S : \A w \in S : w <= v

\* std.Maximum with the neighbours at the offsets in nbrs switched on
Maximum(pic, nbrs) ==
    [q \in Pixels |->
        SetMax({pic[q]} \cup
               {pic[<<q[1] + o[1], q[2] + o[2]>>] :
                    o \in {o \in nbrs : <<q[1] + o[1], q[2] + o[2]>> \in Pixels}})]

\* coordinates=[0, 1, 0, 0, 0, 0, 1, 0]: above and below
AboveBelow == {<<0, -1>>, <<0, 1>>}
\* coordinates=[0, 0, 0, 1, 1, 0, 0, 0]: left and right
LeftRight == {<<-1, 0>>, <<1, 0>>}

\* the combination by max
MinExpr_max(x, y) == [q \in Pixels |-> Max(x[q], y[q])]

\* akarin.Expr([x, y], 'x y min')
MinExpr(x, y) == [q \in Pixels |-> Min(x[q], y[q])]

\* the clip moved the other way: frame n is frame n+1 of the source
ShiftedFrame_next(clip, n) == clip[Min(n + 2, Len(clip))]

\* frame n of src[0] + src
ShiftedFrame(clip, n) == IF n = 0 THEN clip[1] ELSE clip[n]

\* where no mask was built
NoMask == <<>>

\* comb_mask on one plane of an 8-bit clip, and frame n of what it returns;
\* diff, motion and comb are the intermediate masks of that frame
comb_mask(clip, n, cthresh, mthresh, expand, metric) ==
    LET err == comb_mask_check(cthresh, mthresh, metric)
        peak == MaskPeak
        src == clip[n + 1]
        spatial_mask == IF metric # 0 THEN ex_m1(src, cthresh, peak)
                        ELSE ex_m0(src, cthresh, peak)
        diff == ex_motion(src, ShiftedFrame(clip, n), mthresh, peak)
        motion_mask == Maximum(diff, AboveBelow)
        comb == MinExpr(spatial_mask, motion_mask)
    IN IF err # "none"
       THEN [ok |-> FALSE, error |-> err, spatial |-> NoMask, diff |-> NoMask,
             motion |-> NoMask, comb |-> NoMask, mask |-> NoMask]
       ELSE IF mthresh = 0
       THEN [ok |-> TRUE, error |-> "none", spatial |-> spatial_mask,
             diff |-> NoMask, motion |-> NoMask, comb |-> spatial_mask,
             mask |-> IF expand THEN Maximum(spatial_mask, LeftRight)
                      ELSE spatial_mask]
       ELSE [ok |-> TRUE, error |-> "none", spatial |-> spatial_mask,
             diff |-> diff, motion |-> motion_mask, comb |-> comb,
             mask |-> IF expand THEN Maximum(comb, LeftRight) ELSE comb]

\* ------------------------------------------- the 60i check of the entry points
\* src.fps_num and src.fps_den of a 60i clip
FpsNum60i == 30000
FpsDen60i == 1001

\* what an entry point returns or raises; built lists the derived clips it
\* constructed before it returned or raised
Rejected(built) ==
    [ok |-> FALSE, error |-> "ValueError", built |-> built, clip |-> <<>>,
     files |-> <<>>]
Returned(built, clip, files) ==
    [ok |-> TRUE, error |-> "none", built |-> built, clip |-> clip,
     files |-> files]
\* an exception of a callee passes through the entry point
Aborted(built, error) ==
    [ok |-> FALSE, error |-> error, built |-> built, clip |-> <<>>,
     files |-> <<>>]

\* JIVTC_Deblend from its first line
JIVTC_Deblend_entry(fps_num, fps_den, src, pattern, chroma_only) ==
    LET r == JIVTC_Deblend(src, pattern, chroma_only)
    IN IF fps_num # FpsNum60i \/ fps_den # FpsDen60i
       THEN Rejected(<<>>)
       ELSE IF ~r.ok THEN Aborted(r.built, r.error)
       ELSE Returned(r.built, r.clip, <<>>)

\* ------------------------------------------------------- find_prop and _rng
\* ops[operator](fprop, ref)
ops(operator, fprop, ref) ==
    CASE operator = "<" -> fprop < ref
      [] operator = "<=" -> fprop <= ref
      [] operator = "==" -> fprop = ref
      [] operator = "!=" -> fprop # ref
      [] operator = ">" -> fprop > ref
      [] operator = ">=" -> fprop >= ref

\* the frames the callback _cb collects over a clip whose frame n has the
\* prop fprops[n + 1], in the order clip_async_render calls it
RECURSIVE Collected(_, _, _, _)
Collected(fprops, operator, ref, n) ==
    IF n >= Len(fprops) THEN <<>>
    ELSE (IF ops(operator, fprops[n + 1], ref) THEN <<n>> ELSE <<>>)
             \o Collected(fprops, operator, ref, n + 1)

\* the loop of _rng from the k-th element of flist1 on, and the append after
\* it: the runs of consecutive frames
RECURSIVE rng_runs(_, _, _, _, _)
rng_runs(flist1, k, prev_n, flist2, flist3) ==
    IF k > Len(flist1)
    THEN IF flist3 # <<>> THEN Append(flist2, flist3) ELSE flist2
    ELSE LET n == flist1[k]
             cut == prev_n + 1 # n /\ flist3 # <<>>
         IN rng_runs(flist1, k + 1, n,
                     IF cut THEN Append(flist2, flist3) ELSE flist2,
                     Append(IF cut THEN <<>> ELSE flist3, n))

\* i[-2] of a Python list: the element before the last one, IndexError on a
\* list of one element
BeforeLast(i) ==
    IF Len(i) < 2 THEN [ok |-> FALSE, value |-> -1]
    ELSE [ok |-> TRUE, value |-> i[Len(i) - 1]]

\* _rng
rng(flist1, min_length) ==
    LET flist2 == rng_runs(flist1, 1, -1, <<>>, <<>>)
        Long(i) == Len(i) > min_length
        flist4 == SelectSeq(flist2, Long)
        first_frame == [j \in 1..Len(flist4) |-> flist4[j][1]]
        last_frame == [j \in 1..Len(flist4) |-> BeforeLast(flist4[j])]
        final == [j \in 1..(2 * Len(flist4)) |->
                     IF j % 2 = 1 THEN first_frame[(j + 1) \div 2]
                     ELSE last_frame[j \div 2].value]
    IN IF \E j \in 1..Len(flist4) : ~last_frame[j].ok
       THEN [ok |-> FALSE, error |-> "IndexError", runs |-> flist2,
             frames |-> <<>>]
       ELSE [ok |-> TRUE, error |-> "none", runs |-> flist2,
             frames |-> <<>> \o final]

\* _bookmarks: the file it writes; its text is str(flist)[1:-1], the numbers
\* of flist in decimal separated by ", ", kept here as the list of numbers
bookmarks(flist, name) == [name |-> name \o ".bookmarks", frames |-> flist]

\* find_prop on a clip whose frame n has the prop fprops[n + 1]: the scan,
\* _rng, and the file _bookmarks writes; an IndexError of _rng leaves no file
find_prop(fprops, operator, ref, name, return_ranges, min_length) ==
    LET frames == Collected(fprops, operator, ref, 0)
        r == IF return_ranges THEN rng(frames, min_length)
             ELSE [ok |-> TRUE, error |-> "none", runs |-> <<>>,
                   frames |-> frames]
    IN [ok |-> r.ok, error |-> r.error, runs |-> r.runs, frames |-> r.frames,
        files |-> IF r.ok THEN <<bookmarks(r.frames, name)>> ELSE <<>>]

\* the default of min_length of find_prop
MinLengthProp == 24

\* find_comb on a clip whose frames get the _Combed fprops from tdm.IsCombed:
\* the frames with _Combed == 1, listed one by one
find_comb(fprops, name) ==
    LET find == Clip("find", Len(fprops))
        r == find_prop(fprops, "==", 1, name, FALSE, MinLengthProp)
    IN IF ~r.ok THEN Aborted(<<"IsCombed">>, r.error)
       ELSE Returned(<<"IsCombed">>, find, r.files)

\* the defaults of min_length and thr of find_30p, and of min_length of
\* find_60p
MinLength30p == 34
Thr30p == 2000
MinLength60p == 60

\* find_30p on a clip whose frames get the VDecimateMaxBlockDiff fprops: VFM
\* and VDecimate(dryrun=True) keep every frame
find_30p(fps_num, fps_den, fprops, min_length, thr, name, show_thr) ==
    LET find == Clip("find", Len(fprops))
        r == find_prop(fprops, ">", thr, name, TRUE, min_length)
    IN IF fps_num # FpsNum60i \/ fps_den # FpsDen60i
       THEN Rejected(<<>>)
       ELSE IF show_thr
       THEN Returned(<<"VFM", "VDecimate", "FrameProps">>, find, <<>>)
       ELSE IF ~r.ok THEN Aborted(<<"VFM", "VDecimate">>, r.error)
       ELSE Returned(<<"VFM", "VDecimate">>, find, r.files)

\* find_60p on a clip whose frames get the _Combed fprops from VFM
find_60p(fps_num, fps_den, fprops, min_length, name) ==
    LET find == Clip("find", Len(fprops))
        r == find_prop(fprops, "==", 0, name, TRUE, min_length)
    IN IF fps_num # FpsNum60i \/ fps_den # FpsDen60i
       THEN Rejected(<<>>)
       ELSE IF ~r.ok THEN Aborted(<<"VFM">>, r.error)
       ELSE Returned(<<"VFM">>, find, r.files)

\* ---------------------------------------------------------- select_lesscombed
\* PlaneStatsAverage of a mask, times the number of pixels and the peak (the
\* sum of its samples): the order of the averages is the order of the sums
RECURSIVE PlaneSum(_, _)
PlaneSum(pic, S) ==
    IF S = {} THEN 0
    ELSE LET q == CHOOSE q \in S : TRUE IN pic[q] + PlaneSum(pic, S \ {q})
PlaneStatsAverage(pic) == PlaneSum(pic, Pixels)

\* avg.index(min(avg)), counted from 1
IndexOfMin(avg) ==
    CHOOSE i \in DOMAIN avg :
        /\ \A j \in DOMAIN avg : avg[i] <= avg[j]
        /\ \A j \in DOMAIN avg : avg[j] = avg[i] => i <= j

\* select_lesscombed and the frame n of the clip it returns: _select reads
\* the props of the masks 0, 1, 2 and 3, and f has one frame for each clip
select_lesscombed(src, n, cthresh, mthresh, metric) ==
    LET mask == [i \in DOMAIN src |->
                    comb_mask(src[i], n, cthresh, mthresh, TRUE, metric).mask]
        avg == [i \in 1..4 |-> PlaneStatsAverage(mask[i])]
    IN IF Len(src) < 4
       THEN [ok |-> FALSE, avg |-> <<>>, chosen |-> 0, frame |-> NoFrame]
       ELSE [ok |-> TRUE, avg |-> <<>> \o avg, chosen |-> IndexOfMin(avg),
             frame |-> Frame(IndexOfMin(avg), n)]

\* ------------------------------------------------------------ the machine
Idle == [op |-> "idle"]
NoArgs == [op |-> "none"]

InitClip(lo, hi, flags) ==
    /\ num_frames \in lo..hi
    /\ combed \in [0..(num_frames - 1) -> CombedFlags]
    /\ scenechange \in [0..(num_frames - 1) -> flags]
    /\ out = Idle
    /\ served = {}
    /\ args = NoArgs

\* a request for frame n of jdeblend(src_fm, src)
RequestDeblend(n) ==
    LET src_fm == Clip("fm", num_frames)
        src == Clip("src", num_frames)
        comb == Props(combed, Psrc(src_fm), n)
        r == jdeblend_eval(n, comb, src_fm, Inters(src))
    IN /\ jdeblend_builds(num_frames)
       /\ out' = [op |-> "jdeblend", n |-> n, ok |-> r.ok,
                  stream |-> eval_stream(n, comb, src_fm, Inters(src)),
                  index |-> Resolved(r, n),
                  frame |-> FrameEval(r, n)]
       /\ UNCHANGED <<num_frames, combed, scenechange, served, args>>

\* frame n of dbd is computed: the window std.Expr reads
RequestDbd(n) ==
    /\ jdeblend_builds(num_frames)
    /\ out' = [op |-> "dbd", n |-> n,
               window |-> DeblendWindow(Clip("src", num_frames), n)]
    /\ UNCHANGED <<num_frames, combed, scenechange, served, args>>

\* a request for frame n of jdeblend_kf(src, src_fm)
RequestKf(n) ==
    LET src_fm == Clip("fm", num_frames)
        src == Clip("in", num_frames)
        keyfm == Props(scenechange, Psrc(src_fm), n)
        cmb == Props(combed, Psrc(src_fm), n)[1]
        r == keyframe(n, keyfm, cmb, src)
    IN /\ out' = [op |-> "jdeblend_kf", n |-> n, ok |-> r.ok,
                  keyfm |-> keyfm, asked |-> r.asked,
                  frame |-> FrameEval(r, n)]
       /\ UNCHANGED <<num_frames, combed, scenechange, served, args>>

\* the candidate selector and the deblend behind it
\* jdeblend(src_fm, src) is called: it raises, or returns a clip made of
\* these candidate streams
CallJdeblend ==
    /\ out = Idle
    /\ out' = IF jdeblend_builds(num_frames)
              THEN [op |-> "built", ok |-> TRUE,
                    inters |-> Inters(Clip("src", num_frames))]
              ELSE [op |-> "built", ok |-> FALSE, inters |-> <<>>]
    /\ UNCHANGED <<num_frames, combed, scenechange, served, args>>

Init == InitClip(MinFrames, MaxFrames, {0})
Next ==
    \/ CallJdeblend
    \/ \E n \in 0..(num_frames - 1) : RequestDeblend(n)
    \/ \E n \in 0..(num_frames - 1) : RequestDbd(n)
Spec == Init /\ [][Next]_vars

\* the scene boundary corrector
InitKf == InitClip(MinFrames, MaxFramesKf, SceneFlags)
NextKf == \E n \in 0..(num_frames - 1) : RequestKf(n)
SpecKf == InitKf /\ [][NextKf]_vars

\* the deblend kernel on one pixel of four constant frames: a = A,
\* ab = 0.5*A + 0.5*B, bc = 0.5*B + 0.5*C and c = C as integer samples
InitKernel == InitClip(MinFrames, MinFrames, {0}) /\ combed[0] = 0
                /\ combed[1] = 0 /\ combed[2] = 0
DeblendPixel(A, B, C, ab, bc, up) ==
    /\ out' = [op |-> "expr", A |-> A, B |-> B, C |-> C, ab |-> ab, bc |-> bc,
               res |-> StoreSample(DeblendExpr2(A, ab, bc, C), up, SamplePeak)]
    /\ UNCHANGED <<num_frames, combed, scenechange, served, args>>
NextKernel ==
    \E A, B, C \in 0..SamplePeak :
        \E ab \in Halves(A + B), bc \in Halves(B + C), up \in BOOLEAN :
            DeblendPixel(A, B, C, ab, bc, up)
SpecKernel == InitKernel /\ [][NextKernel]_vars

\* the cadence entry points, on clips of one frame and more
Patterns == (0 - MaxPattern)..MaxPattern
InitCadence ==
    /\ num_frames \in 1..MaxFramesCad
    /\ combed = [i \in 0..(num_frames - 1) |-> 0]
    /\ scenechange = [i \in 0..(num_frames - 1) |-> 0]
    /\ out = Idle
    /\ served = {}
    /\ args = NoArgs
CallJIVTC(pattern, chroma_only) ==
    LET r == JIVTC_Deblend(Clip("src", num_frames), pattern, chroma_only)
    IN /\ out' = [op |-> "JIVTC_Deblend", pattern |-> pattern,
                  chroma_only |-> chroma_only, ok |-> r.ok,
                  error |-> r.error, built |-> r.built, index |-> r.index,
                  rows |-> r.rows, clip |-> r.clip, ivtced |-> r.ivtced,
                  deblended |-> r.deblended, final |-> r.final]
       /\ UNCHANGED <<num_frames, combed, scenechange, served, args>>
CallDecimate(pattern) ==
    LET r == decimate(Clip("src", num_frames), pattern)
    IN /\ out' = [op |-> "decimate", pattern |-> pattern, ok |-> r.ok,
                  error |-> r.error, index |-> r.index, rows |-> r.rows,
                  clip |-> r.clip]
       /\ UNCHANGED <<num_frames, combed, scenechange, served, args>>
NextCadence ==
    \/ \E pattern \in Patterns, chroma_only \in BOOLEAN :
           CallJIVTC(pattern, chroma_only)
    \/ \E pattern \in Patterns : CallDecimate(pattern)
SpecCadence == InitCadence /\ [][NextCadence]_vars

\* the entry points that want a 60i clip, on clips of several rates; the
\* clips given to find_30p have block differences at and above thr, those
\* given to find_60p have _Combed 0 or 1 after VFM
Rates == {<<30000, 1001>>, <<24000, 1001>>, <<60000, 1001>>,
          <<30000, 1000>>, <<30, 1>>, <<25, 1>>}
MinLengths == (-1)..MaxMinLength
EntryCall(fn, rate, fprops, min_length, pattern, flag) ==
    [op |-> "entry", fn |-> fn, rate |-> rate, fprops |-> fprops,
     min_length |-> min_length, pattern |-> pattern, flag |-> flag]
InitRate ==
    /\ num_frames \in 1..MaxScan
    /\ combed = [i \in 0..(num_frames - 1) |-> 0]
    /\ scenechange = [i \in 0..(num_frames - 1) |-> 0]
    /\ out = Idle
    /\ served = {}
    /\ \E rate \in Rates :
         \/ \E pattern \in 0..4, chroma_only \in BOOLEAN :
               args = EntryCall("JIVTC_Deblend", rate, <<>>, 0, pattern,
                                chroma_only)
         \/ \E fprops \in [1..num_frames -> {Thr30p, Thr30p + 1}],
                min_length \in MinLengths \cup {MinLength30p},
                show_thr \in BOOLEAN :
               args = EntryCall("find_30p", rate, fprops, min_length, 0,
                                show_thr)
         \/ \E fprops \in [1..num_frames -> CombedFlags],
                min_length \in MinLengths \cup {MinLength60p} :
               args = EntryCall("find_60p", rate, fprops, min_length, 0,
                                FALSE)
Entered(r) ==
    /\ out = Idle
    /\ out' = [op |-> "entry", fn |-> args.fn, rate |-> args.rate,
               ok |-> r.ok, error |-> r.error, built |-> r.built,
               clip |-> r.clip, files |-> r.files]
    /\ UNCHANGED <<num_frames, combed, scenechange, served, args>>
EnterJIVTC ==
    /\ args.op = "entry" /\ args.fn = "JIVTC_Deblend"
    /\ Entered(JIVTC_Deblend_entry(args.rate[1], args.rate[2],
                                   Clip("src", num_frames), args.pattern,
                                   args.flag))
EnterFind30p ==
    /\ args.op = "entry" /\ args.fn = "find_30p"
    /\ Entered(find_30p(args.rate[1], args.rate[2], args.fprops,
                        args.min_length, Thr30p, "30p_ranges", args.flag))
EnterFind60p ==
    /\ args.op = "entry" /\ args.fn = "find_60p"
    /\ Entered(find_60p(args.rate[1], args.rate[2], args.fprops,
                        args.min_length, "60p_ranges"))
NextRate ==
    \/ EnterJIVTC
    \/ EnterFind30p
    \/ EnterFind60p
SpecRate == InitRate /\ [][NextRate]_vars

\* comb_mask on two-frame clips: every first frame of rows of 0 and of peak with
\* a second frame that differs from it in no pixel, one pixel or all pixels,
\* under the default and the zero thresholds; and the flat clips under
\* thresholds at and around the ends of their ranges; and still pictures of
\* rows of grey levels whose differences lie around the thresholds
Lines(rows) == [q \in Pixels |-> IF q[2] \in rows THEN MaskPeak ELSE 0]
Pictures == {Lines(rows) : rows \in SUBSET (0..(MaskHeight - 1))}
Flip(pic, moved) ==
    [q \in Pixels |-> IF q \in moved THEN MaskPeak - pic[q] ELSE pic[q]]
Moves == {{}, Pixels} \cup {{q} : q \in Pixels}
Flat(v) == [q \in Pixels |-> v]
\* pictures of rows of grey levels a few units apart
Levels == {100, 106, 107, 113, 120}
Graded(rows) == [q \in Pixels |-> rows[q[2]]]
MaskCall(clip, n, cthresh, mthresh, expand, metric) ==
    [op |-> "comb_mask", clip |-> clip, n |-> n, cthresh |-> cthresh,
     mthresh |-> mthresh, expand |-> expand, metric |-> metric]
InitMask ==
    /\ num_frames = 2
    /\ combed = [i \in 0..1 |-> 0]
    /\ scenechange = [i \in 0..1 |-> 0]
    /\ out = Idle
    /\ served = {}
    /\ \/ \E pic \in Pictures, moved \in Moves, n \in 0..1,
            cthresh \in {0, 6}, mthresh \in {0, 9},
            expand \in BOOLEAN, metric \in {0, 1} :
              args = MaskCall(<<pic, Flip(pic, moved)>>, n, cthresh, mthresh,
                              expand, metric)
       \/ \E v \in {0, 128, MaskPeak}, n \in 0..1,
            cthresh \in {-1, 0, 6, ThreshMax, ThreshMax + 1, ThreshMaxM1,
                         ThreshMaxM1 + 1},
            mthresh \in {-1, 0, 1, 9, ThreshMax, ThreshMax + 1},
            expand \in BOOLEAN, metric \in {0, 1} :
              args = MaskCall(<<Flat(v), Flat(v)>>, n, cthresh, mthresh,
                              expand, metric)
       \/ \E rows \in [0..(MaskHeight - 1) -> Levels],
            cthresh \in {0, 6, 13, ThreshMax}, metric \in {0, 1} :
              args = MaskCall(<<Graded(rows), Graded(rows)>>, 0, cthresh, 0,
                              FALSE, metric)
CallCombMask ==
    /\ args.op = "comb_mask"
    /\ out = Idle
    /\ LET r == comb_mask(args.clip, args.n, args.cthresh, args.mthresh,
                          args.expand, args.metric)
       IN out' = [op |-> "comb_mask", ok |-> r.ok, error |-> r.error,
                  spatial |-> r.spatial, diff |-> r.diff, motion |-> r.motion,
                  comb |-> r.comb, mask |-> r.mask]
    /\ UNCHANGED <<num_frames, combed, scenechange, served, args>>
NextMask == CallCombMask
SpecMask == InitMask /\ [][NextMask]_vars

\* the clip jdeblend returns serves requests in any order, any number of
\* times; with every request the same request is put to each clip that
\* differs from this one in the _Combed prop of one frame; at most one frame
\* of the clip has no _Combed prop
Twins == {c \in (0..(num_frames - 1)) \X StreamFlags : combed[c[1]] # c[2]}
InitStream ==
    /\ num_frames \in {num \in MinFrames..MaxFramesStream :
                          jdeblend_builds(num)}
    /\ combed \in {f \in [0..(num_frames - 1) -> StreamFlags] :
                      Cardinality({i \in DOMAIN f : f[i] = Absent}) <= 1}
    /\ scenechange = [i \in 0..(num_frames - 1) |-> 0]
    /\ out = Idle
    /\ served = {}
    /\ args = NoArgs
Serve(n) ==
    LET r == jdeblend_frame(n, combed, num_frames, served)
    IN /\ Cardinality(served) < MaxServed
       /\ out' = [op |-> "serve", n |-> n, reply |-> r,
                  twins |-> [c \in Twins |->
                      jdeblend_frame(n, [combed EXCEPT ![c[1]] = c[2]],
                                     num_frames, served)]]
       /\ served' = served \cup {r}
       /\ UNCHANGED <<num_frames, combed, scenechange, args>>
NextStream == \E n \in 0..(num_frames - 1) : Serve(n)
SpecStream == InitStream /\ [][NextStream]_vars

\* find_prop and find_comb on clips of MaxScan frames whose prop is 0 or 1
Operators == {"<", "<=", "==", "!=", ">", ">="}
FindCall(fprops, operator, ref, return_ranges, min_length) ==
    [op |-> "find_prop", fprops |-> fprops, operator |-> operator,
     ref |-> ref, return_ranges |-> return_ranges, min_length |-> min_length]
InitFind ==
    /\ num_frames = MaxScan
    /\ combed = [i \in 0..(num_frames - 1) |-> 0]
    /\ scenechange = [i \in 0..(num_frames - 1) |-> 0]
    /\ out = Idle
    /\ served = {}
    /\ \E fprops \in [1..MaxScan -> {0, 1}], operator \in Operators,
         ref \in {0, 1}, return_ranges \in BOOLEAN,
         min_length \in 0..MaxMinLength :
           \/ args = FindCall(fprops, operator, ref, return_ranges,
                              min_length)
           \/ args = [op |-> "find_comb", fprops |-> fprops]
CallFindProp ==
    /\ args.op = "find_prop"
    /\ out = Idle
    /\ LET r == find_prop(args.fprops, args.operator, args.ref,
                          "find_prop", args.return_ranges, args.min_length)
       IN out' = [op |-> "find_prop",
                  collected |-> Collected(args.fprops, args.operator,
                                          args.ref, 0),
                  ok |-> r.ok, error |-> r.error, runs |-> r.runs,
                  frames |-> r.frames, files |-> r.files]
    /\ UNCHANGED <<num_frames, combed, scenechange, served, args>>
CallFindComb ==
    /\ args.op = "find_comb"
    /\ out = Idle
    /\ LET r == find_comb(args.fprops, "comb_list")
       IN out' = [op |-> "find_comb", ok |-> r.ok, error |-> r.error,
                  built |-> r.built, clip |-> r.clip, files |-> r.files]
    /\ UNCHANGED <<num_frames, combed, scenechange, served, args>>
NextFind ==
    \/ CallFindProp
    \/ CallFindComb
SpecFind == InitFind /\ [][NextFind]_vars

\* select_lesscombed on lists of two-frame clips: the frames are black with
\* some rows white, and frame 1 of the clips is frame 0 of the list reversed
SamplePics == {Lines({}), Lines({0}), Lines({1})}
SelectCall(src, n, metric) ==
    [op |-> "select_lesscombed", src |-> src, n |-> n, cthresh |-> 6,
     mthresh |-> 0, metric |-> metric]
InitSelect ==
    /\ num_frames = 2
    /\ combed = [i \in 0..1 |-> 0]
    /\ scenechange = [i \in 0..1 |-> 0]
    /\ out = Idle
    /\ served = {}
    /\ \E len \in 1..MaxClips, n \in 0..1, metric \in {0, 1} :
         \E pics \in [1..len -> SamplePics] :
           args = SelectCall([i \in 1..len |-> <<pics[i], pics[len + 1 - i]>>],
                             n, metric)
CallSelect ==
    /\ args.op = "select_lesscombed"
    /\ out = Idle
    /\ LET r == select_lesscombed(args.src, args.n, args.cthresh,
                                  args.mthresh, args.metric)
       IN out' = [op |-> "select_lesscombed", ok |-> r.ok, avg |-> r.avg,
                  chosen |-> r.chosen, frame |-> r.frame]
    /\ UNCHANGED <<num_frames, combed, scenechange, served, args>>
NextSelect == CallSelect
SpecSelect == InitSelect /\ [][NextSelect]_vars

\* ------------------------------------------------------------------ claims
IsDeblend == out.op = "jdeblend"
IsDbd == out.op = "dbd"
IsKf == out.op = "jdeblend_kf"
LastFrame == num_frames - 1

\* C1 as stated, for the frames that have a next frame: the selector resolves
\* frame n to n+1 exactly when frame n and the next frame n+1 are both combed,
\* and to n otherwise.
C1_ShiftOnNextCombed ==
    IsDeblend /\ out.n < LastFrame =>
        out.index = (IF combed[out.n] + combed[out.n + 1] = 2
                     THEN out.n + 1 ELSE out.n)

\* C1 amended: the selector resolves frame n to n+1 exactly when frame n and
\* the previous frame max(n-1,0) are both combed, and to n otherwise; the frame
\* it emits is the frame at the resolved index, and when the resolved index is
\* num_frames (a shift at the last frame) the request fails.
C1_ShiftOnPrevCombed ==
    IsDeblend =>
        LET both == combed[out.n] + combed[Max(out.n - 1, 0)] = 2
        IN /\ out.index = (IF both THEN out.n + 1 ELSE out.n)
           /\ out.ok <=> out.index <= LastFrame
           /\ out.ok => out.frame.idx = out.index

\* frames 2 and 3 combed and no other: the request for frame 3 resolved to 4
C1_Witness ==
    /\ IsDeblend /\ num_frames >= 5
    /\ \A i \in 0..LastFrame : combed[i] = 1 <=> i \in {2, 3}
    /\ out.n = 3 /\ out.index = 4 /\ out.frame.idx = 4

\* C2: the selector takes the frame from candidate stream n mod 5 when
\* combed[n] = 1, and otherwise emits frame n of the field-matched clip itself.
C2_StreamChoice ==
    IsDeblend =>
        IF combed[out.n] = 1
        THEN /\ out.stream = Inters(Clip("src", num_frames))[(out.n % 5) + 1]
             /\ out.ok => out.frame = out.stream[out.index + 1]
        ELSE /\ out.stream = Clip("fm", num_frames)
             /\ out.ok /\ out.frame = Frame("fm", out.n)

\* a combed frame past the first cycle was served from its candidate stream
C2_Witness ==
    /\ IsDeblend /\ out.n = 5 /\ combed[5] = 1 /\ combed[4] = 0
    /\ out.ok /\ out.frame = Frame("dbd", 5)

\* C3 as stated: every request of the selector succeeds and resolves to a
\* frame number inside 0..num_frames-1.
C3_SelectorInRange ==
    IsDeblend => out.ok /\ out.index \in 0..LastFrame

\* C4 as stated: with kf_end = (sceneFlag[n-1] + sceneFlag[n] = 1), a combed
\* frame with kf_end is answered with frame n-1 of the input.
C4_KfEndIsSumOne ==
    IsKf /\ out.n >= 1 /\ combed[out.n] = 1
         /\ scenechange[out.n - 1] + scenechange[out.n] = 1
      => out.ok /\ out.frame = Frame("in", out.n - 1)

\* C4 amended: the corrector pulls frame n-1 first exactly when frame n is
\* combed and sceneFlag[n] > sceneFlag[max(n-1,0)]; the request then emits
\* frame n-1 of the input, unless the flags also add up to 2 (prev 0, cur 2),
\* where the forward pull is applied to the one-frame result and fails.
C4_KfEndIsGreater ==
    IsKf =>
        LET prev == scenechange[Max(out.n - 1, 0)]
            cur == scenechange[out.n]
            back == combed[out.n] = 1 /\ cur > prev
        IN /\ back <=> (out.asked # <<>> /\ out.asked[1] = out.n - 1)
           /\ back /\ prev + cur # 2 => out.ok /\ out.frame = Frame("in", out.n - 1)
           /\ back /\ prev + cur = 2 => ~out.ok

\* prev = 0, cur = 1 on a combed frame: frame n-1 was emitted
C4_Witness ==
    /\ IsKf /\ out.n >= 1 /\ combed[out.n] = 1
    /\ scenechange[out.n - 1] = 0 /\ scenechange[out.n] = 1
    /\ out.ok /\ out.frame = Frame("in", out.n - 1)

\* C5 as stated, for the frames that have a next frame: the corrector emits
\* exactly one of frame n-1 (combed and kf_end), frame n+1 (combed and
\* kf_start, kf_end not applying) and frame n, with at most one pull.
C5_OnePull ==
    IsKf /\ out.n < LastFrame =>
        LET prev == scenechange[Max(out.n - 1, 0)]
            cur == scenechange[out.n]
            cmb == combed[out.n] = 1
        IN /\ Len(out.asked) <= 1
           /\ out.ok
           /\ out.frame.idx = (IF cmb /\ cur > prev THEN out.n - 1
                               ELSE IF cmb /\ prev + cur = 2 THEN out.n + 1
                               ELSE out.n)

\* C6 as stated: a request for frame 0 or for the last frame never indexes the
\* input stream outside 0..num_frames-1.
C6_KfBoundary ==
    IsKf /\ out.n \in {0, LastFrame} =>
        /\ out.ok
        /\ \A i \in 1..Len(out.asked) : out.asked[i] \in 0..LastFrame

\* C7 as stated: the deblend of frame n reads a = frame max(n-1,0), ab = frame
\* n, bc = frame min(n+1,N-1) and c = frame min(n+2,N-1).
C7_Window ==
    IsDbd =>
        out.window = [a  |-> Max(out.n - 1, 0),
                      ab |-> out.n,
                      bc |-> Min(out.n + 1, LastFrame),
                      c  |-> Min(out.n + 2, LastFrame)]

IsExpr == out.op = "expr"
IsCall == out.op \in {"JIVTC_Deblend", "decimate"}

\* C8: on constant frames a = A, ab = 0.5*A + 0.5*B, bc = 0.5*B + 0.5*C and
\* c = C the deblend formula returns B within one unit.
C8_RoundTrip ==
    IsExpr => out.res - out.B \in {-1, 0, 1}

\* a blend of different values that had to be rounded was deblended to B
C8_Witness ==
    IsExpr /\ out.A = 1 /\ out.B = 4 /\ out.C = SamplePeak /\ out.res = 4

\* four distinct indices, strictly ascending, inside 0..top
GoodRow(row, top) ==
    /\ Len(row) = 4
    /\ \A i \in 1..4 : row[i] \in 0..top
    /\ \A i \in 1..3 : row[i] < row[i + 1]

\* the clip of the call can be built: JIVTC_Deblend slices src[2:], and
\* decimate keeps no frame of a one-frame clip when the pattern is at phase 0
CallBuilds ==
    IF out.op = "JIVTC_Deblend" THEN num_frames >= MinFrames
    ELSE ~(num_frames = 1 /\ out.index = 0)

\* C9: the rows a call of JIVTC_Deblend or decimate uses hold 4 distinct
\* ascending indices inside 0..9 (cycle10), 0..7 (cycle08), 0..4 (cycle05,
\* selectlist), whatever the pattern; a call that cannot build its clip
\* raises after it took its first row.
C9_TableRows ==
    /\ out.op = "JIVTC_Deblend" =>
          /\ out.ok <=> CallBuilds
          /\ Len(out.rows) = (IF out.ok THEN 3 ELSE 1)
          /\ GoodRow(out.rows[1], 9)
          /\ out.ok => GoodRow(out.rows[2], 7) /\ GoodRow(out.rows[3], 4)
    /\ out.op = "decimate" =>
          /\ out.ok <=> CallBuilds
          /\ Len(out.rows) = 1 /\ GoodRow(out.rows[1], 4)

\* JIVTC_Deblend was called with pattern 3 and used the rows of pattern 3
C9_Witness ==
    /\ out.op = "JIVTC_Deblend" /\ out.pattern = 3
    /\ out.rows = << <<2, 4, 6, 9>>, <<0, 2, 4, 7>>, <<1, 2, 3, 4>> >>

\* C10: a call indexes its tables with a value in 0..4, and the same call
\* with pattern + 5k uses the same rows and returns the same frames (or
\* raises the same error where the clip cannot be built).
C10_PatternMod5 ==
    IsCall =>
        /\ out.ok <=> CallBuilds
        /\ out.index \in 0..4
        /\ \A k \in (0 - 2)..2 :
              LET src == Clip("src", num_frames)
                  other == IF out.op = "decimate"
                           THEN decimate(src, out.pattern + 5 * k)
                           ELSE JIVTC_Deblend(src, out.pattern + 5 * k,
                                              out.chroma_only)
              IN /\ other.ok = out.ok /\ other.error = out.error
                 /\ other.rows = out.rows /\ other.clip = out.clip

\* decimate was called with a negative pattern and dropped frame 4 of a cycle
C10_Witness ==
    /\ out.op = "decimate" /\ out.pattern = -1 /\ out.index = 4
    /\ num_frames >= 5 /\ Len(out.clip) >= 4
    /\ \A i \in 1..4 : out.clip[i] = Frame("src", i - 1)

IsEntry == out.op = "entry"

\* C11 as stated: JIVTC_Deblend, find_30p and find_60p raise exactly when the
\* rate of the clip is not 30000/1001, they raise before any derived clip is
\* built, and on a 30000/1001 clip they raise nothing and return their clip.
C11_RateFailFast ==
    IsEntry =>
        /\ ~out.ok <=> out.rate # <<30000, 1001>>
        /\ ~out.ok => out.error = "ValueError" /\ out.built = <<>>
                        /\ out.clip = <<>>
        /\ out.ok => out.error = "none" /\ out.built # <<>> /\ out.clip # <<>>

IsJIVTC == out.op = "JIVTC_Deblend"
IsDecimate == out.op = "decimate"

\* C12: on a clip whose length N is a multiple of five JIVTC_Deblend returns
\* 4N/5 frames, whatever the pattern and chroma_only; 20 frames give 16.
C12_OutputLength ==
    IsJIVTC /\ num_frames % 5 = 0 =>
        /\ out.ok
        /\ 5 * Len(out.clip) = 4 * num_frames
        /\ num_frames = 20 => Len(out.clip) = 16

\* a 20-frame clip went through JIVTC_Deblend with pattern 0
C12_Witness ==
    /\ IsJIVTC /\ num_frames = 20 /\ out.pattern = 0
    /\ Len(out.clip) = 16

\* the frames of an n-frame clip that are not at the phase of the pattern
KeptFrames(n, pattern) ==
    LET Keep(f) == f.idx % 5 # pattern % 5
    IN SelectSeq(Clip("src", n), Keep)

\* C13 as stated: decimate returns, in order, the frames whose index n has
\* n mod 5 # pattern mod 5, and what it removes is one frame of every
\* complete 5-frame cycle and nothing else.
C13_OnePerCompleteCycle ==
    IsDecimate =>
        /\ out.ok
        /\ out.clip = KeptFrames(num_frames, out.pattern)
        /\ num_frames - Len(out.clip) = num_frames \div 5

\* C13 amended: decimate returns, in order, exactly the frames whose index n
\* has n mod 5 # pattern mod 5; the frame at the phase of the pattern is
\* removed from the trailing incomplete cycle as well when the cycle has it.
\* When no frame is left to return (one frame, pattern at phase 0) the call
\* raises and returns no clip.
C13_DropsPhase ==
    IsDecimate =>
        /\ out.ok <=> KeptFrames(num_frames, out.pattern) # <<>>
        /\ ~out.ok => /\ num_frames = 1 /\ out.pattern % 5 = 0
                      /\ out.error = "Error: SelectEvery" /\ out.clip = <<>>
        /\ out.ok =>
              /\ out.clip = KeptFrames(num_frames, out.pattern)
              /\ num_frames - Len(out.clip) =
                     (num_frames \div 5)
                     + (IF out.pattern % 5 < num_frames % 5 THEN 1 ELSE 0)

\* a clip with a trailing incomplete cycle lost the frame of that cycle too
C13_Witness ==
    /\ IsDecimate /\ num_frames = 7 /\ out.pattern = 1
    /\ Len(out.clip) = 5 /\ out.clip[5].idx = 5

\* C14: with chroma_only every output frame k has the luma of frame k of the
\* re-interleaved clip (ivtced) and the chroma of frame k of the merged clip
\* (final); without it both come from frame k of the merged clip. The call
\* returns a clip exactly on clips of three frames and more.
C14_PlaneRouting ==
    IsJIVTC =>
        /\ out.ok <=> CallBuilds
        /\ Len(out.clip) <= Len(out.ivtced)
        /\ Len(out.clip) <= Len(out.final)
        /\ \A k \in 1..Len(out.clip) :
               out.clip[k] = IF out.chroma_only
                             THEN Planes(out.ivtced[k], out.final[k])
                             ELSE Planes(out.final[k], out.final[k])

\* a chroma_only call whose luma and chroma frames differ
C14_Witness ==
    /\ IsJIVTC /\ out.chroma_only /\ Len(out.clip) >= 4
    /\ \E k \in 1..Len(out.clip) :
           /\ out.clip[k].luma = out.ivtced[k]
           /\ out.clip[k].chroma = out.final[k]
           /\ out.ivtced[k] # out.final[k]

IsMask == out.op = "comb_mask"

\* C15: comb_mask raises, with no mask built, exactly when mthresh is outside
\* 0..255 or cthresh is outside 0..255 (metric 0) or 0..65025 (metric 1).
C15_ThresholdRanges ==
    IsMask =>
        /\ out.ok <=>
              /\ args.mthresh \in 0..255
              /\ args.cthresh \in 0..(IF args.metric = 0 THEN 255 ELSE 65025)
        /\ ~out.ok => out.mask = NoMask /\ out.spatial = NoMask
        /\ out.ok => out.mask \in [Pixels -> {0, MaskPeak}]

\* metric 1 accepted a cthresh that metric 0 refuses
C15_Witness ==
    /\ IsMask /\ out.ok /\ args.metric = 1 /\ args.cthresh = 65025
    /\ args.mthresh = 255

\* the frame asked of comb_mask, the one before it and the one after it
CurPic == args.clip[args.n + 1]
PrevPic == args.clip[Max(args.n - 1, 0) + 1]
NextPic == args.clip[Min(args.n + 1, Len(args.clip) - 1) + 1]
\* pixel q differs by more than mthresh between the asked frame and pic
Differs(q, pic) == Abs(CurPic[q] - pic[q]) > args.mthresh
\* q, the pixel above it and the pixel below it
Column3(q) == {r \in Pixels : r[1] = q[1] /\ Abs(r[2] - q[2]) <= 1}
IsMotion == IsMask /\ out.ok /\ args.mthresh > 0

\* C16 as stated: with mthresh > 0 a pixel of frame n is marked in the motion
\* mask exactly when it differs by more than mthresh from the same pixel of
\* the next frame (for a frame that has a next frame).
C16_MotionAgainstNext ==
    IsMotion /\ args.n + 1 < Len(args.clip) =>
        \A q \in Pixels : out.motion[q] = MaskPeak <=> Differs(q, NextPic)

\* C16 amended: with mthresh > 0 the thresholded difference is taken against
\* the previous frame (frame 0 against itself), and the motion mask that
\* enters the combination marks a pixel exactly when that pixel, the pixel
\* above it or the pixel below it differs by more than mthresh.
C16_MotionAgainstPrev ==
    IsMotion =>
        \A q \in Pixels :
            /\ out.diff[q] = MaskPeak <=> Differs(q, PrevPic)
            /\ out.diff[q] \in {0, MaskPeak}
            /\ out.motion[q] = MaskPeak <=>
                  \E r \in Column3(q) : Differs(r, PrevPic)
            /\ out.motion[q] \in {0, MaskPeak}

\* one pixel moved between frame 0 and frame 1: the motion mask of frame 1
\* marks it and its vertical neighbours, and nothing in the other column
C16_Witness ==
    /\ IsMotion /\ args.n = 1
    /\ \A q \in Pixels : Differs(q, PrevPic) <=> q = <<0, 1>>
    /\ out.diff[<<0, 1>>] = MaskPeak /\ out.diff[<<0, 0>>] = 0
    /\ out.motion[<<0, 0>>] = MaskPeak /\ out.motion[<<0, 2>>] = MaskPeak
    /\ out.motion[<<1, 1>>] = 0

\* C17 as stated: with mthresh = 0 the mask before expand is the spatial
\* mask; otherwise it is min(spatial, motion) per pixel, and a pixel whose
\* own difference (to the previous and to the next frame) does not exceed
\* mthresh is never marked.
C17_OwnDifferenceOnly ==
    IsMask /\ out.ok =>
        /\ args.mthresh = 0 => out.comb = out.spatial
        /\ args.mthresh > 0 =>
              \A q \in Pixels :
                  /\ out.comb[q] = Min(out.spatial[q], out.motion[q])
                  /\ ~Differs(q, PrevPic) /\ ~Differs(q, NextPic)
                        => out.comb[q] = 0

\* C17 amended: with mthresh = 0 the mask before expand is the spatial mask;
\* otherwise it is min(spatial, motion) per pixel with motion the vertically
\* dilated difference to the previous frame, so a pixel is marked exactly
\* when the spatial mask marks it and it, the pixel above or the pixel below
\* differs by more than mthresh; without expand this is the returned mask.
C17_Combination ==
    IsMask /\ out.ok =>
        /\ args.mthresh = 0 => out.comb = out.spatial
        /\ args.mthresh > 0 =>
              \A q \in Pixels :
                  /\ out.comb[q] = Min(out.spatial[q], out.motion[q])
                  /\ out.comb[q] = MaskPeak <=>
                        /\ out.spatial[q] = MaskPeak
                        /\ \E r \in Column3(q) : Differs(r, PrevPic)
        /\ ~args.expand => out.mask = out.comb

\* a pixel that did not change is marked because the pixel above it changed
C17_Witness ==
    /\ IsMotion /\ args.n = 1
    /\ ~Differs(<<0, 1>>, PrevPic) /\ Differs(<<0, 0>>, PrevPic)
    /\ out.spatial[<<0, 1>>] = MaskPeak
    /\ out.comb[<<0, 1>>] = MaskPeak

\* every pixel of every frame of the clip has one value
IsFlat == \E v \in 0..MaskPeak : args.clip = <<Flat(v), Flat(v)>>

\* C18: on a flat clip comb_mask returns an all-zero mask for every valid
\* cthresh, mthresh, metric and expand.
C18_FlatIsZero ==
    IsMask /\ IsFlat /\ out.ok => out.mask = Flat(0)

\* the defaults on a flat grey clip
C18_Witness ==
    /\ IsMask /\ out.ok /\ args.clip = <<Flat(128), Flat(128)>>
    /\ args.cthresh = 6 /\ args.mthresh = 9 /\ args.metric = 0 /\ args.expand
    /\ out.mask = Flat(0)

IsServe == out.op = "serve"

\* C19 as stated: what a request for frame n resolves to depends only on n,
\* combed[n] and combed[n+1], whatever was requested before (on clips whose
\* frames all have the flag, for a frame n that has a next frame).
C19_DependsOnNext ==
    /\ IsServe /\ out.n + 1 < num_frames
    /\ \A i \in DOMAIN combed : combed[i] # Absent
    =>
        /\ \A c \in DOMAIN out.twins :
               c[2] # Absent /\ c[1] \notin {out.n, out.n + 1}
                   => out.twins[c] = out.reply
        /\ \A a, b \in served : a.n = b.n => a = b

\* C19 amended: what a request for frame n resolves to depends only on n,
\* combed[n], combed[max(n-1, 0)] and the length of the clip: it is the same
\* on every clip that differs in another frame's flag, the same as on a clip
\* that served nothing before, and the same every time it is asked.
C19_Pure ==
    IsServe =>
        /\ \A c \in DOMAIN out.twins :
               c[1] \notin {out.n, Max(out.n - 1, 0)}
                   => out.twins[c] = out.reply
        /\ out.reply = jdeblend_frame(out.n, combed, num_frames, {})
        /\ \A a, b \in served : a.n = b.n => a = b

\* after a request that took an interleaved stream, a request for another
\* frame is answered from src_fm, and the flag of the frame after it does
\* not change the answer while the flag of the frame before it does
C19_Witness ==
    /\ IsServe /\ out.n >= 1 /\ out.n + 1 < num_frames
    /\ out.reply.ok /\ out.reply.stream = Clip("fm", num_frames)
    /\ \E r \in served : r.ok /\ r.n # out.n
                          /\ r.stream # Clip("fm", num_frames)
    /\ \A c \in DOMAIN out.twins :
           c[1] = out.n + 1 => out.twins[c] = out.reply
    /\ \E c \in DOMAIN out.twins :
           c[1] = out.n - 1 /\ out.twins[c] # out.reply

\* C20: a request for a frame whose combed flag is missing fails with an
\* error, and once a request has failed so no later request on the clip
\* produces a frame.
C20_FatalToStream ==
    IsServe =>
        /\ combed[out.n] = Absent =>
               ~out.reply.ok /\ out.reply.error = "KeyError"
        /\ (\E r \in served : r.n # out.n /\ r.error = "KeyError")
               => ~out.reply.ok

IsRng == out.op = "find_prop" /\ args.return_ranges

\* the frames find_prop collected, as a set
Matching == {out.collected[j] : j \in DOMAIN out.collected}
\* the maximal runs of consecutive matching frames, as <<first, last>>
MaximalRuns ==
    {r \in (0..(MaxScan - 1)) \X (0..(MaxScan - 1)) :
        /\ r[1] <= r[2]
        /\ \A n \in r[1]..r[2] : n \in Matching
        /\ (r[1] - 1) \notin Matching /\ (r[2] + 1) \notin Matching}
\* the runs that _rng keeps: longer than min_length
KeptRuns == {r \in MaximalRuns : r[2] - r[1] + 1 > args.min_length}
\* first and last frame of the runs of R, runs in ascending order
RECURSIVE FirstLast(_)
FirstLast(R) ==
    IF R = {} THEN <<>>
    ELSE LET r == CHOOSE r \in R : \A q \in R : r[1] <= q[1]
         IN <<r[1], r[2]>> \o FirstLast(R \ {r})

\* C21: with return_ranges, what find_prop returns from _rng lists, for each
\* kept maximal run of consecutive matching frames, the first frame of the
\* run followed by its last frame, runs ascending (whenever _rng returns).
C21_RunFirstLast ==
    IsRng /\ out.ok => out.frames = FirstLast(KeptRuns)

\* C30: _rng returns for every ascending list and every min_length >= 0, and
\* what it returns has two entries, start <= end, for each maximal run that
\* is longer than min_length.
C30_RngTotal ==
    IsRng =>
        /\ out.ok
        /\ Len(out.frames) = 2 * Cardinality(KeptRuns)
        /\ \A j \in 1..Cardinality(KeptRuns) :
               out.frames[2 * j - 1] <= out.frames[2 * j]

IsSelect == out.op = "select_lesscombed"

\* the comb-mask average of frame n of every clip of the list
AllAvg ==
    [i \in DOMAIN args.src |->
        PlaneStatsAverage(comb_mask(args.src[i], args.n, args.cthresh,
                                    args.mthresh, TRUE, args.metric).mask)]

\* C22: for every non-empty list of clips select_lesscombed returns frame n
\* of the clip whose comb-mask average is the least over all the clips of
\* the list, the earliest one on ties.
C22_LeastOverAll ==
    IsSelect =>
        /\ out.ok
        /\ out.frame = Frame(IndexOfMin(AllAvg), args.n)

IsBuilt == out.op = "built"

\* C23: frame m of candidate stream p is the deblended frame m when
\* m mod 5 = p and the source frame m otherwise, and each of the five streams
\* has exactly N frames, whether or not N is a multiple of five (on every
\* clip jdeblend can be built on).
C23_CandidateStreams ==
    IsBuilt =>
        /\ out.ok <=> num_frames >= 5
        /\ out.ok =>
              /\ Len(out.inters) = 5
              /\ \A p \in 0..4 :
                    /\ Len(out.inters[p + 1]) = num_frames
                    /\ \A m \in 0..(num_frames - 1) :
                          out.inters[p + 1][m + 1] =
                              IF m % 5 = p THEN Frame("dbd", m)
                              ELSE Frame("src", m)

\* the streams of a clip whose length is not a multiple of five
C23_Witness ==
    /\ IsBuilt /\ out.ok /\ num_frames = 6
    /\ out.inters[1][6] = Frame("dbd", 5)
    /\ out.inters[2][6] = Frame("src", 5)

\* the sample of the asked frame in the column of q, dy rows from q, rows
\* outside the picture read as the nearest row
Tap(q, dy) == CurPic[<<q[1], Min(Max(q[2] + dy, 0), MaskHeight - 1)>>]
D1(q) == Tap(q, 0) - Tap(q, -1)
D2(q) == Tap(q, 0) - Tap(q, 1)
Fd(q) == Abs(4 * Tap(q, 0) + Tap(q, -2) + Tap(q, 2)
             - 3 * (Tap(q, -1) + Tap(q, 1)))

\* C24: with metric 0 the spatial mask is peak at a pixel exactly when
\* ((d1 > cthresh and d2 > cthresh) or (d1 < -cthresh and d2 < -cthresh))
\* and fd > 6 * cthresh, and 0 otherwise.
C24_Metric0 ==
    IsMask /\ out.ok /\ args.metric = 0 =>
        \A q \in Pixels :
            out.spatial[q] =
                IF /\ \/ D1(q) > args.cthresh /\ D2(q) > args.cthresh
                      \/ D1(q) < 0 - args.cthresh /\ D2(q) < 0 - args.cthresh
                   /\ Fd(q) > 6 * args.cthresh
                THEN MaskPeak ELSE 0

\* fd with the rows two away taken for the rows one away
FdNear(q) == Abs(4 * Tap(q, 0) - 2 * (Tap(q, -1) + Tap(q, 1)))
\* the five taps of q are five rows of the picture
FiveRows(q) == q[2] - 2 >= 0 /\ q[2] + 2 <= MaskHeight - 1

\* a pixel with five rows to read whose two differences exceed cthresh is
\* marked because of the rows two away: fd is above 6 * cthresh and would
\* not be with the rows one away in their place
C24_Witness ==
    /\ IsMask /\ out.ok /\ args.metric = 0 /\ args.cthresh = 6
    /\ \E q \in Pixels :
          /\ FiveRows(q)
          /\ Tap(q, -2) # Tap(q, -1) /\ Tap(q, 2) # Tap(q, 1)
          /\ D1(q) > 6 /\ D2(q) > 6
          /\ Fd(q) > 36 /\ FdNear(q) <= 36
          /\ out.spatial[q] = MaskPeak

\* the shift rule fires for the requested frame: the frame and the frame
\* before it (frame 0 for frame 0) are both flagged
ShiftFires ==
    combed[out.n] = 1 /\ combed[Max(out.n - 1, 0)] = 1

\* C25: when the shift rule fires for frame n the emitted frame is never a
\* deblended one: it is the untouched source frame n+1 (no frame at all at
\* the last frame); when combed[n] = 1 and the rule does not fire, the
\* emitted frame is the deblended frame n.
C25_ShiftNeverDeblended ==
    IsDeblend =>
        /\ ShiftFires =>
              /\ out.index = out.n + 1
              /\ out.frame.kind # "dbd"
              /\ out.ok => out.frame = Frame("src", out.n + 1)
        /\ combed[out.n] = 1 /\ ~ShiftFires =>
              out.ok /\ out.frame = Frame("dbd", out.n)

\* the rule fired in the middle of a clip, on a candidate stream
C25_Witness ==
    /\ IsDeblend /\ ShiftFires /\ out.n = 2 /\ out.ok
    /\ out.stream[3] = Frame("dbd", 2)
    /\ out.frame = Frame("src", 3)

\* the three rows JIVTC_Deblend selected: of cycle10, cycle08 and cycle05
Row10 == out.rows[1]
Row08 == out.rows[2]
Row05 == out.rows[3]
\* the slots of an output group that are taken from the deblended clip
DeblendSlots == {k \in 1..4 : Row08[k] % 2 = 1}

\* C26: the merge keeps positions: entry k of the cycle08 row halves to k, so
\* output frame 4m+k is frame 4m+k of the field-matched clip (even entry) or of
\* the deblended clip (odd entry), and exactly one slot of the four is taken
\* from the deblended clip (on every clip the call can be built on).
C26_PositionPreserving ==
    IsJIVTC /\ CallBuilds =>
        /\ out.ok
        /\ \A k \in 1..4 : Row08[k] \div 2 = k - 1
        /\ Cardinality(DeblendSlots) = 1
        /\ Len(out.final) = Len(out.ivtced)
        /\ \A j \in 1..Len(out.final) :
              out.final[j] = IF ((j - 1) % 4) + 1 \in DeblendSlots
                             THEN out.deblended[j]
                             ELSE out.ivtced[j]

\* two full groups of pattern 2: the last slot of each is the deblended one
C26_Witness ==
    /\ IsJIVTC /\ out.pattern = 2 /\ num_frames = 10
    /\ out.final[1] = Frame("weave", 0)
    /\ out.final[4] = Frame("dbd", 3)
    /\ out.final[8] = Frame("dbd", 8)

\* C27: the slot taken from the deblended clip is the deblend computed at a
\* source frame congruent to (pattern + 1) mod 5, in the table row and in
\* every output frame that is a deblended one (on every clip the call can be
\* built on).
C27_DeblendPhase ==
    IsJIVTC /\ CallBuilds =>
        /\ out.ok
        /\ \A k \in DeblendSlots : Row05[k] = (out.index + 1) % 5
        /\ \A j \in 1..Len(out.final) :
              out.final[j].kind = "dbd" =>
                  out.final[j].idx % 5 = (out.index + 1) % 5

\* pattern -1 is pattern 4: the first slot of each group is the deblend at a
\* source frame that is a multiple of five
C27_Witness ==
    /\ IsJIVTC /\ out.pattern = -1 /\ out.index = 4 /\ num_frames = 10
    /\ out.final[1] = Frame("dbd", 0)
    /\ out.final[5] = Frame("dbd", 5)

\* C28: the two interleaved clips are aligned: entry k of the cycle05 row is
\* half of entry k of the cycle10 row, frame j of the field-matched clip is
\* woven at the source position frame j of the deblended clip is computed at,
\* and the two clips have the same number of frames for every input length
\* the call can be built on.
C28_TracksAligned ==
    IsJIVTC /\ CallBuilds =>
        /\ out.ok
        /\ \A k \in 1..4 : Row05[k] = Row10[k] \div 2
        /\ Len(out.ivtced) = Len(out.deblended)
        /\ \A j \in 1..Len(out.ivtced) :
              /\ out.ivtced[j].kind = "weave"
              /\ out.deblended[j].kind = "dbd"
              /\ out.deblended[j].idx = out.ivtced[j].idx \div 2

\* seven frames, pattern 3: one frame of the incomplete cycle is kept in both
C28_Witness ==
    /\ IsJIVTC /\ out.pattern = 3 /\ num_frames = 7
    /\ Len(out.ivtced) = 5 /\ Len(out.deblended) = 5
    /\ out.ivtced[5] = Frame("weave", 12)
    /\ out.deblended[5] = Frame("dbd", 6)

\* C29: the previous-frame props come from frame max(n-1,0) of the
\* field-matched clip, so at frame 0 the two scene flags are equal, kf_end is
\* false whatever the flag, frame -1 is never indexed, and the request emits
\* frame 0, or frame 1 when the frame is a combed scene start.
C29_NoBackwardPullAtZero ==
    IsKf =>
        /\ out.keyfm = <<scenechange[out.n], scenechange[Max(out.n - 1, 0)]>>
        /\ \A i \in 1..Len(out.asked) : out.asked[i] # -1
        /\ out.n = 0 =>
              /\ out.keyfm[1] = out.keyfm[2]
              /\ ~(out.keyfm[1] > out.keyfm[2])
              /\ out.ok
              /\ out.frame =
                    IF combed[0] = 1 /\ scenechange[0] = 1
                    THEN Frame("in", 1) ELSE Frame("in", 0)

\* frame 0 combed with the highest flag and an unflagged frame after it: the
\* request emitted frame 0 and indexed nothing
C29_Witness ==
    /\ IsKf /\ out.n = 0 /\ combed[0] = 1
    /\ scenechange[0] = 2 /\ scenechange[1] = 0
    /\ out.asked = <<>> /\ out.frame = Frame("in", 0)

====
